---- MODULE Spec2Model ----
(* A model of binja_weggli.py: the "Weggli Query" command of the host          *)
(* (module-level run_query) and WeggliPlugin.run_query, which normalizes the   *)
(* query text, parses it, resolves its identifiers to functions, intersects    *)
(* the caller sets of those functions, renders and matches every surviving     *)
(* function and writes the matches to the log or to an HTML report.            *)
EXTENDS Integers, Sequences, FiniteSets, TLC

(* ------------------------------------------------------------------------- *)
(* Bounds of the model.                                                        *)
(* ------------------------------------------------------------------------- *)
MaxSites == 3
MaxIds == 2
MaxMatches == 1
MaxLen == 3

(* ------------------------------------------------------------------------- *)
(* The binary view: functions and the call-site index.                         *)
(* ------------------------------------------------------------------------- *)
\* bv.functions: the function table of the binary, in the host's order. A
\* function's identity is its start address.
FunctionTable ==
    << [start |-> 1, name |-> "A"],
       [start |-> 2, name |-> "B"],
       [start |-> 3, name |-> "X"] >>
Funcs == {FunctionTable[i].start : i \in DOMAIN FunctionTable}
NoSuchName == "nosuch"
Names == {FunctionTable[i].name : i \in DOMAIN FunctionTable} \cup {NoSuchName}

\* A call site: the function it targets and the functions whose body contains
\* its address (bv.get_functions_containing(xref.address)).
SiteKinds == [target : Funcs, within : {{g} : g \in Funcs}]
CallSiteIndexes == {S \in SUBSET SiteKinds : Cardinality(S) <= MaxSites}

\* Python values that may be None: a str, or None.
Str(t) == [type |-> "str", val |-> t]
PyNone == [type |-> "NoneType", val |-> <<>>]

(* ------------------------------------------------------------------------- *)
(* Text: a string is a sequence of one-character strings.                      *)
(* ------------------------------------------------------------------------- *)
Chars == {"a", ";", "{", "}"}
ExampleQuery == <<"i", "n", "t", " ", "$", "x", " ", "=", " ", "1">>
WellFormedQuery == <<"{", "a", ";", "}">>
BoundedTexts == UNION {[1..n -> Chars] : n \in 0..MaxLen}
FormTexts == {ExampleQuery}
NormTexts == BoundedTexts \cup {ExampleQuery, WellFormedQuery}

\* str.find(c) < 0
Lacks(q, c) == \A i \in 1..Len(q) : q[i] # c

VARIABLES
    functions,      \* bv.functions
    callSites,      \* the call-site index of the binary view
    settings,       \* the host's Settings()
    qsettings,      \* QSettings("Weggli", "Weggli"): ui/querytext, or None
    pc,             \* position of the command
    raw,            \* the query text handed to WeggliPlugin.run_query
    query,          \* local `query`
    output_format,  \* self.output_format
    print_code,     \* self.print_code
    identifiers,    \* weggli.identifiers(qt)
    referenced_funcs,
    idx,            \* position of the reduction loop in referenced_funcs
    work,           \* local `work`
    todo,           \* targets the loop over `work` has not visited yet
    report,         \* local `report`, as a sequence of entries
    shown,          \* documents handed to bv.show_html_report
    trace,          \* host calls and log lines, in order
    raised          \* an exception left run_query

vars == <<functions, callSites, settings, qsettings, pc, raw, query,
          output_format, print_code, identifiers, referenced_funcs, idx, work,
          todo, report, shown, trace, raised>>

host == <<functions, callSites>>
locals == <<raw, query, output_format, print_code, identifiers,
            referenced_funcs, idx, work, todo, report>>

\* One host call or log line: what happened, the name or label it carries, the
\* function (start address, 0 when there is none) and a count.
Event(e, l, f, k) == [ev |-> e, tag |-> l, fn |-> f, n |-> k]
\* One piece appended to the HTML report.
Entry(e, f, k) == [kind |-> e, fn |-> f, n |-> k]

(* ------------------------------------------------------------------------- *)
(* WeggliPlugin.get_function: first function of the table with that name.      *)
(* The Optional result is a sequence of at most one function.                  *)
(* ------------------------------------------------------------------------- *)
RECURSIVE ScanFunctions(_, _, _)
ScanFunctions(fs, name, i) ==
    IF i > Len(fs) THEN <<>>
    ELSE IF fs[i].name = name THEN <<fs[i]>>
    ELSE ScanFunctions(fs, name, i + 1)

\* The loop variable returned after the loop: the last function instead of None.
get_function_leaks_last(fs, name) ==
    IF ScanFunctions(fs, name, 1) = <<>> /\ Len(fs) > 0
    THEN <<fs[Len(fs)]>>
    ELSE ScanFunctions(fs, name, 1)

get_function(fs, name) == ScanFunctions(fs, name, 1)

\* [self.get_function(i) for i in identifiers], None filtered out.
RECURSIVE ResolveAll(_, _)
ResolveAll(fs, ids) ==
    IF ids = <<>> THEN <<>>
    ELSE get_function(fs, Head(ids)) \o ResolveAll(fs, Tail(ids))

RECURSIVE ResolveEvents(_)
ResolveEvents(ids) ==
    IF ids = <<>> THEN <<>>
    ELSE <<Event("get_function", Head(ids), 0, 0)>> \o ResolveEvents(Tail(ids))

(* ------------------------------------------------------------------------- *)
(* WeggliPlugin.xrefs_to, materialized as a set: every function containing     *)
(* the address of a call site that targets f.                                  *)
(* ------------------------------------------------------------------------- *)
get_callers(sites, start) == {x \in sites : x.target = start}

xrefs_to(sites, f) == UNION {x.within : x \in get_callers(sites, f.start)}

(* ------------------------------------------------------------------------- *)
(* WeggliPlugin.decompile.                                                     *)
(* ------------------------------------------------------------------------- *)
Tok(ty, tx) == [type |-> ty, text |-> tx]

\* What the host's linear view returns around a function: lines of tokens.
BodyLine == <<Tok("TagToken", "#"), Tok("TextToken", "f"), Tok("TextToken", "()")>>
CloseLine == <<Tok("TextToken", "}")>>
RenderOutcomes ==
    { [start_lines |-> <<>>, end_lines |-> <<>>],
      [start_lines |-> <<BodyLine>>, end_lines |-> <<CloseLine>>] }

\* "".join(str(token) for token in line if token.type != TagToken)
RECURSIVE LineText(_)
LineText(tokens) ==
    IF tokens = <<>> THEN <<>>
    ELSE (IF Head(tokens).type # "TagToken" THEN <<Head(tokens).text>> ELSE <<>>)
         \o LineText(Tail(tokens))

\* "\n".join(...)
RECURSIVE JoinLines(_)
JoinLines(lines) ==
    IF lines = <<>> THEN <<>>
    ELSE IF Len(lines) = 1 THEN LineText(lines[1])
    ELSE LineText(Head(lines)) \o <<"\n">> \o JoinLines(Tail(lines))

decompile(host_lines) ==
    Str(JoinLines(host_lines.start_lines \o host_lines.end_lines))

\* The style written under the wrong key.
decompile_settings_wrong_key(s) ==
    [s EXCEPT !.weggli_default_output = "bracesNewLine"]

\* Settings().set_string("rendering.hlil.scopingStyle", "bracesNewLine")
decompile_settings(s) ==
    [s EXCEPT !.rendering_hlil_scopingStyle = "bracesNewLine"]

(* ------------------------------------------------------------------------- *)
(* Query normalization at the head of WeggliPlugin.run_query.                  *)
(* ------------------------------------------------------------------------- *)
\* The braces put on before the separator: "{q};" instead of "{q;}".
Normalize_braces_first(q) ==
    LET brace == Lacks(q, "{") \/ Lacks(q, "}")
        q1 == IF brace THEN <<"{">> \o q \o <<"}">> ELSE q
        w1 == IF brace THEN <<Event("log_warn", "braces", 0, 0)>> ELSE <<>>
        semi == Lacks(q1, ";")
        q2 == IF semi THEN q1 \o <<";">> ELSE q1
        w2 == IF semi THEN <<Event("log_warn", "semicolon", 0, 0)>> ELSE <<>>
    IN [text |-> q2, warnings |-> w2 \o w1]

\* `query.find(";") <= 0`: a separator at index 0 counts as missing.
Normalize_find_off_by_one(q) ==
    LET semi == \A i \in 2..Len(q) : q[i] # ";"
        q1 == IF semi THEN q \o <<";">> ELSE q
        w1 == IF semi THEN <<Event("log_warn", "semicolon", 0, 0)>> ELSE <<>>
        brace == Lacks(q1, "{") \/ Lacks(q1, "}")
        q2 == IF brace THEN <<"{">> \o q1 \o <<"}">> ELSE q1
        w2 == IF brace THEN <<Event("log_warn", "braces", 0, 0)>> ELSE <<>>
    IN [text |-> q2, warnings |-> w1 \o w2]

Normalize(q) ==
    LET semi == Lacks(q, ";")
        q1 == IF semi THEN q \o <<";">> ELSE q
        w1 == IF semi THEN <<Event("log_warn", "semicolon", 0, 0)>> ELSE <<>>
        brace == Lacks(q1, "{") \/ Lacks(q1, "}")
        q2 == IF brace THEN <<"{">> \o q1 \o <<"}">> ELSE q1
        w2 == IF brace THEN <<Event("log_warn", "braces", 0, 0)>> ELSE <<>>
    IN [text |-> q2, warnings |-> w1 \o w2]

\* weggli.matches(qt, code): the number of results. A result is a span of the
\* rendered text, so text without any character has none.
MatchCounts(code) == IF code.val = <<>> THEN {0} ELSE 0..MaxMatches

\* work.update(...) and work.difference_update(...): the wrong set method.
update(w, s) == w \cup s
difference_update(w, s) == w \ s

\* work.intersection_update(...)
intersection_update(w, s) == w \cap s

\* `if len(referenced_funcs) > 0:` decides whether the reduction runs.
AfterResolve(funcs) == IF Len(funcs) > 0 THEN "seed" ELSE "display"

\* The display call made whatever the output format.
ShowsAlways(fmt) == TRUE

\* `if self.output_format == "Report Tab":` before the display call.
ShowsReport(fmt) == fmt = "Report Tab"

\* The sequences of identifiers weggli.identifiers(qt) may return: the
\* distinct names the query mentions, in any order.
IdentifierLists ==
    {s \in UNION {[1..n -> Names] : n \in 0..MaxIds} :
        \A i \in 1..Len(s) : \A j \in 1..Len(s) : s[i] = s[j] => i = j}

OutputChoices == {"Report Tab", "Log"}

(* ------------------------------------------------------------------------- *)
(* Initial state: the extension is loaded, its settings are registered, a     *)
(* binary view is open and the command has not been invoked.                  *)
(* ------------------------------------------------------------------------- *)
Init ==
    /\ functions = FunctionTable
    /\ callSites \in CallSiteIndexes
    /\ settings \in [rendering_hlil_scopingStyle : {"default"},
                     weggli_show_code : BOOLEAN,
                     weggli_default_output : {"Report Tab"}]
    /\ qsettings = PyNone
    /\ pc = "idle"
    /\ raw = <<>>
    /\ query = <<>>
    /\ output_format = "Log"
    /\ print_code = FALSE
    /\ identifiers = <<>>
    /\ referenced_funcs = <<>>
    /\ idx = 0
    /\ work = {}
    /\ todo = {}
    /\ report = <<>>
    /\ shown = <<>>
    /\ trace = <<>>
    /\ raised = FALSE

(* ------------------------------------------------------------------------- *)
(* The registered command: module-level run_query(bv).                        *)
(* ------------------------------------------------------------------------- *)
\* The form is preset from ui/querytext and weggli.default_output; what comes
\* back is the operator's: confirmed or not, the text and the output format.
command_run_query(ok, text, choice) ==
    /\ pc = "idle"
    /\ IF ~ok
       THEN /\ pc' = "cancelled"
            /\ UNCHANGED <<qsettings, raw, query, output_format, print_code>>
       ELSE /\ qsettings' = Str(text)
            /\ print_code' = settings.weggli_show_code
            /\ output_format' = choice
            /\ raw' = text
            /\ query' = text
            /\ pc' = "normalize"
    /\ UNCHANGED <<host, settings, identifiers, referenced_funcs, idx, work,
                   todo, report, shown, trace, raised>>

(* ------------------------------------------------------------------------- *)
(* WeggliPlugin.run_query, step by step.                                      *)
(* ------------------------------------------------------------------------- *)
run_query_normalize ==
    /\ pc = "normalize"
    /\ query' = Normalize(query).text
    /\ trace' = trace \o Normalize(query).warnings
    /\ pc' = "parse"
    /\ UNCHANGED <<host, settings, qsettings, raw, output_format, print_code,
                   identifiers, referenced_funcs, idx, work, todo, report,
                   shown, raised>>

\* The ParseError caught and the run carried on with whatever was parsed.
run_query_parse_swallows(accept, ids) ==
    /\ pc = "parse"
    /\ raised' = ~accept
    /\ identifiers' = ids
    /\ referenced_funcs' = ResolveAll(functions, ids)
    /\ trace' = trace \o <<Event("parse_query", "ok", 0, 0)>> \o ResolveEvents(ids)
    /\ report' = IF output_format = "Report Tab"
                 THEN <<Entry("head", 0, 0), Entry("query", 0, 0)>>
                 ELSE report
    /\ pc' = AfterResolve(referenced_funcs')
    /\ UNCHANGED <<host, settings, qsettings, raw, query, output_format,
                   print_code, idx, work, todo, shown>>

\* weggli.parse_query either raises or yields a tree; then the identifiers
\* are resolved and, for a report, the document head is written.
run_query_parse(accept, ids) ==
    /\ pc = "parse"
    /\ IF ~accept
       THEN /\ raised' = TRUE
            /\ pc' = "raised"
            /\ trace' = trace \o <<Event("parse_query", "ParseError", 0, 0)>>
            /\ UNCHANGED <<identifiers, referenced_funcs, report>>
       ELSE /\ identifiers' = ids
            /\ referenced_funcs' = ResolveAll(functions, ids)
            /\ trace' = trace \o <<Event("parse_query", "ok", 0, 0)>>
                              \o ResolveEvents(ids)
            /\ report' = IF output_format = "Report Tab"
                         THEN <<Entry("head", 0, 0), Entry("query", 0, 0)>>
                         ELSE report
            /\ pc' = AfterResolve(referenced_funcs')
            /\ UNCHANGED raised
    /\ UNCHANGED <<host, settings, qsettings, raw, query, output_format,
                   print_code, idx, work, todo, shown>>

\* work = set(self.xrefs_to(referenced_funcs[0]))
run_query_seed ==
    /\ pc = "seed"
    /\ work' = xrefs_to(callSites, referenced_funcs[1])
    /\ trace' = trace \o <<Event("xrefs_to", "", referenced_funcs[1].start, 0)>>
    /\ idx' = 2
    /\ pc' = "intersect"
    /\ UNCHANGED <<host, settings, qsettings, raw, query, output_format,
                   print_code, identifiers, referenced_funcs, todo, report,
                   shown, raised>>

\* One turn of `for f in referenced_funcs[1:]`.
run_query_intersect ==
    /\ pc = "intersect"
    /\ idx <= Len(referenced_funcs)
    /\ work' = intersection_update(work, xrefs_to(callSites, referenced_funcs[idx]))
    /\ trace' = trace \o <<Event("xrefs_to", "", referenced_funcs[idx].start, 0)>>
    /\ idx' = idx + 1
    /\ UNCHANGED <<host, settings, qsettings, pc, raw, query, output_format,
                   print_code, identifiers, referenced_funcs, todo, report,
                   shown, raised>>

\* The loop is over: "Searching through N functions.."
run_query_begin_search ==
    /\ pc = "intersect"
    /\ idx > Len(referenced_funcs)
    /\ trace' = trace \o <<Event("log_info", "searching", 0, Cardinality(work))>>
    /\ report' = IF output_format = "Report Tab"
                 THEN Append(report, Entry("searching", 0, Cardinality(work)))
                 ELSE report
    /\ todo' = work
    /\ pc' = "search"
    /\ UNCHANGED <<host, settings, qsettings, raw, query, output_format,
                   print_code, identifiers, referenced_funcs, idx, work, shown,
                   raised>>

\* The log lines and report entries of one target with n results.
MatchLog(t, n) ==
    IF n > 0
    THEN (IF output_format = "Log"
          THEN <<Event("log_info", "matches", t, n)>> ELSE <<>>)
         \o (IF print_code /\ output_format = "Log"
             THEN [i \in 1..n |-> Event("log_info", "code", t, i)] ELSE <<>>)
    ELSE <<>>

MatchReport(t, n) ==
    IF n > 0
    THEN (IF output_format = "Report Tab"
          THEN <<Entry("result", t, n)>> ELSE <<>>)
         \o (IF print_code /\ output_format = "Report Tab"
             THEN [i \in 1..n |-> Entry("code", t, i)] ELSE <<>>)
    ELSE <<>>

\* One turn of `for target in work`, in whatever order the set yields.
run_query_target(t, host_lines, n) ==
    /\ pc = "search"
    /\ t \in todo
    /\ LET code == decompile(host_lines) IN
       /\ settings' = decompile_settings(settings)
       /\ IF code.type # "NoneType"
          THEN /\ n \in MatchCounts(code)
               /\ trace' = trace \o <<Event("decompile", "", t, Len(code.val)),
                                      Event("matches", "", t, n)>>
                                 \o MatchLog(t, n)
               /\ report' = report \o MatchReport(t, n)
          ELSE /\ n = 0
               /\ trace' = trace \o <<Event("decompile", "", t, 0),
                                      Event("log_error", "", t, 0)>>
               /\ UNCHANGED report
    /\ todo' = todo \ {t}
    /\ UNCHANGED <<host, qsettings, pc, raw, query, output_format, print_code,
                   identifiers, referenced_funcs, idx, work, shown, raised>>

run_query_end_search ==
    /\ pc = "search"
    /\ todo = {}
    /\ pc' = "display"
    /\ UNCHANGED <<host, settings, qsettings, raw, query, output_format,
                   print_code, identifiers, referenced_funcs, idx, work, todo,
                   report, shown, trace, raised>>

\* The tail of run_query: close the document and show it.
run_query_display ==
    /\ pc = "display"
    /\ IF ShowsReport(output_format)
       THEN /\ report' = Append(report, Entry("foot", 0, 0))
            /\ shown' = Append(shown, report')
            /\ trace' = Append(trace, Event("show_html_report", "", 0, 0))
       ELSE UNCHANGED <<report, shown, trace>>
    /\ pc' = "done"
    /\ UNCHANGED <<host, settings, qsettings, raw, query, output_format,
                   print_code, identifiers, referenced_funcs, idx, work, todo,
                   raised>>

Next ==
    \/ \E ok \in BOOLEAN, text \in FormTexts, choice \in OutputChoices :
          command_run_query(ok, text, choice)
    \/ run_query_normalize
    \/ \E accept \in BOOLEAN, ids \in IdentifierLists : run_query_parse(accept, ids)
    \/ run_query_seed
    \/ run_query_intersect
    \/ run_query_begin_search
    \/ \E t \in Funcs, host_lines \in RenderOutcomes, n \in 0..MaxMatches :
          run_query_target(t, host_lines, n)
    \/ run_query_end_search
    \/ run_query_display

Spec == Init /\ [][Next]_vars

(* ------------------------------------------------------------------------- *)
(* Normalization alone, over every short text.                                *)
(* ------------------------------------------------------------------------- *)
InitNorm ==
    /\ functions = FunctionTable
    /\ callSites = {}
    /\ settings = [rendering_hlil_scopingStyle |-> "default",
                   weggli_show_code |-> TRUE,
                   weggli_default_output |-> "Report Tab"]
    /\ raw \in NormTexts
    /\ query = raw
    /\ qsettings = Str(raw)
    /\ pc = "normalize"
    /\ output_format \in OutputChoices
    /\ print_code = TRUE
    /\ identifiers = <<>>
    /\ referenced_funcs = <<>>
    /\ idx = 0
    /\ work = {}
    /\ todo = {}
    /\ report = <<>>
    /\ shown = <<>>
    /\ trace = <<>>
    /\ raised = FALSE

NextNorm == run_query_normalize

SpecNorm == InitNorm /\ [][NextNorm]_vars

(* ------------------------------------------------------------------------- *)
(* Vocabulary of the properties.                                              *)
(* ------------------------------------------------------------------------- *)
\* The functions whose body contains the address of some call site that
\* targets the function starting at `start`.
CallersOf(start) ==
    {g \in Funcs : \E x \in callSites : x.target = start /\ g \in x.within}

NumEvents(tr, e) == Cardinality({i \in 1..Len(tr) : tr[i].ev = e})
NumEventsFor(tr, e, t) ==
    Cardinality({i \in 1..Len(tr) : tr[i].ev = e /\ tr[i].fn = t})
NumWarnings(tr, l) ==
    Cardinality({i \in 1..Len(tr) : tr[i].ev = "log_warn" /\ tr[i].tag = l})
NumLoggedMatches(tr) ==
    Cardinality({i \in 1..Len(tr) : tr[i].ev = "log_info" /\ tr[i].tag = "matches"})
MatchEntries(rep) == {i \in 1..Len(rep) : rep[i].kind \in {"result", "code"}}

Anchors == {referenced_funcs[i].start : i \in 1..Len(referenced_funcs)}
Reduced == pc \in {"search", "display", "done"} /\ Len(referenced_funcs) > 0
Parsed == pc \in {"seed", "intersect", "search", "display", "done"}

\* A "{" somewhere before a "}".
HasBracePair(q) ==
    \E i \in 1..Len(q) : \E j \in 1..Len(q) : i < j /\ q[i] = "{" /\ q[j] = "}"

(* ------------------------------------------------------------------------- *)
(* C1: the working set never grows during the reduction: each intersection    *)
(* leaves a subset of the set before it, and the set is always a subset of    *)
(* the caller set of the first anchor.                                        *)
(* ------------------------------------------------------------------------- *)
C1_WorkShrinks ==
    [][ /\ (pc # "seed" => work' \subseteq work)
        /\ (pc' \in {"intersect", "search"}
              => work' \subseteq CallersOf(referenced_funcs'[1].start)) ]_vars

C1_Witness ==
    /\ pc = "search"
    /\ Len(referenced_funcs) >= 2
    /\ work # {}
    /\ work # CallersOf(referenced_funcs[1].start)

(* ------------------------------------------------------------------------- *)
(* C2: after the reduction the candidate set is exactly the intersection of   *)
(* the caller sets of all anchors.                                            *)
(* ------------------------------------------------------------------------- *)
C2_WorkIsIntersection ==
    Reduced => work = {g \in Funcs : \A a \in Anchors : g \in CallersOf(a)}

\* A (1) is called only from X (3); B (2) is called from X and from one other
\* function; the anchors are [A, B] and the candidates are {X}.
C2_Witness ==
    /\ pc = "search"
    /\ Len(referenced_funcs) = 2
    /\ referenced_funcs[1].name = "A"
    /\ referenced_funcs[2].name = "B"
    /\ CallersOf(1) = {3}
    /\ Cardinality(CallersOf(2)) = 2
    /\ 3 \in CallersOf(2)
    /\ work = {3}

(* ------------------------------------------------------------------------- *)
(* C3: when no identifier of the query names a function, the run goes         *)
(* straight to its end: no exception, no caller set, no rendering, no         *)
(* matching, no match entry in the report and no error line.                  *)
(* ------------------------------------------------------------------------- *)
NoneResolves ==
    \A i \in 1..Len(identifiers) :
        \A k \in DOMAIN functions : functions[k].name # identifiers[i]

C3_NoAnchorsNoSearch ==
    (Parsed /\ NoneResolves) =>
        /\ pc \in {"display", "done"}
        /\ ~raised
        /\ work = {}
        /\ NumEvents(trace, "xrefs_to") = 0
        /\ NumEvents(trace, "decompile") = 0
        /\ NumEvents(trace, "matches") = 0
        /\ NumEvents(trace, "log_error") = 0
        /\ MatchEntries(report) = {}

C3_Witness ==
    /\ pc = "done"
    /\ Len(identifiers) = 1
    /\ NoneResolves
    /\ output_format = "Report Tab"
    /\ Len(shown) = 1

(* ------------------------------------------------------------------------- *)
(* C4: a candidate whose rendering fails (the rendering comes back without    *)
(* any text) gets exactly one error line and is not handed to the matcher.    *)
(* ------------------------------------------------------------------------- *)
C4_FailedRenderIsLoggedAndSkipped ==
    \A i \in 1..Len(trace) :
        (trace[i].ev = "decompile" /\ trace[i].n = 0) =>
            /\ NumEventsFor(trace, "log_error", trace[i].fn) = 1
            /\ NumEventsFor(trace, "matches", trace[i].fn) = 0

(* ------------------------------------------------------------------------- *)
(* C5 as claimed: a query without ";" gets one appended with one warning, and *)
(* a query without an enclosing "{" ... "}" pair gets one wrapped around it   *)
(* with one warning.                                                          *)
(* ------------------------------------------------------------------------- *)
C5_WrapsWhenNoPair ==
    pc = "parse" =>
        /\ Lacks(raw, ";") =>
              /\ NumWarnings(trace, "semicolon") = 1
              /\ \E i \in 1..Len(query) : query[i] = ";"
        /\ ~HasBracePair(raw) =>
              /\ NumWarnings(trace, "braces") = 1
              /\ query[1] = "{"
              /\ query[Len(query)] = "}"

(* C5 as amended: the braces are added exactly when the text has no "{" or    *)
(* no "}" anywhere; the separator goes after the text and inside the braces;  *)
(* one warning per repair, and none otherwise.                                *)
C5_NormalizeByPresence ==
    pc = "parse" =>
        LET semi == Lacks(raw, ";")
            brace == Lacks(raw, "{") \/ Lacks(raw, "}")
        IN /\ query = (IF brace THEN <<"{">> ELSE <<>>) \o raw
                       \o (IF semi THEN <<";">> ELSE <<>>)
                       \o (IF brace THEN <<"}">> ELSE <<>>)
           /\ NumWarnings(trace, "semicolon") = (IF semi THEN 1 ELSE 0)
           /\ NumWarnings(trace, "braces") = (IF brace THEN 1 ELSE 0)
           /\ Len(trace) = (IF semi THEN 1 ELSE 0) + (IF brace THEN 1 ELSE 0)

C5_Witness ==
    /\ pc = "parse"
    /\ raw = ExampleQuery
    /\ query = <<"{">> \o ExampleQuery \o <<";", "}">>
    /\ Len(trace) = 2

(* ------------------------------------------------------------------------- *)
(* C6: normalizing a normalized query changes nothing and warns of nothing,   *)
(* and a query that has a ";" and a brace pair is returned as it is.          *)
(* ------------------------------------------------------------------------- *)
C6_NormalizeIdempotent ==
    pc = "parse" =>
        /\ Normalize(query).text = query
        /\ Normalize(query).warnings = <<>>
        /\ (~Lacks(raw, ";") /\ HasBracePair(raw)) => (query = raw /\ trace = <<>>)

C6_Witness ==
    /\ pc = "parse"
    /\ raw = WellFormedQuery
    /\ query = raw
    /\ trace = <<>>

(* ------------------------------------------------------------------------- *)
(* C7: with "Report Tab" the document is shown exactly once, as the last act  *)
(* of a completed run, and it is the finished report; with "Log" nothing is   *)
(* shown and every match line directly follows the matching of its function.  *)
(* ------------------------------------------------------------------------- *)
C7_DisplayOnceAtEnd ==
    /\ Len(shown) = NumEvents(trace, "show_html_report")
    /\ Len(shown) = (IF pc = "done" /\ output_format = "Report Tab" THEN 1 ELSE 0)
    /\ (pc = "done" /\ output_format = "Report Tab") =>
          /\ trace[Len(trace)].ev = "show_html_report"
          /\ shown[1] = report
          /\ todo = {}
          /\ Len(referenced_funcs) > 0 =>
                \A t \in work : NumEventsFor(trace, "decompile", t) = 1
    /\ output_format = "Report Tab" => NumLoggedMatches(trace) = 0
    /\ output_format = "Log" =>
          /\ report = <<>>
          /\ \A i \in 1..Len(trace) :
                (trace[i].ev = "matches" /\ trace[i].n > 0) =>
                    /\ i < Len(trace)
                    /\ trace[i + 1] = Event("log_info", "matches", trace[i].fn, trace[i].n)

C7_Witness ==
    /\ pc = "done"
    /\ output_format = "Report Tab"
    /\ Len(shown) = 1
    /\ Cardinality(work) = 2
    /\ Cardinality(MatchEntries(report)) >= 2

(* ------------------------------------------------------------------------- *)
(* C8: when the grammar rejects the query the run ends with the exception:    *)
(* nothing is resolved, no caller set is computed, nothing is rendered,       *)
(* matched or logged as a match, and no report is shown.                      *)
(* ------------------------------------------------------------------------- *)
C8_ParseErrorEndsRun ==
    raised =>
        /\ pc = "raised"
        /\ identifiers = <<>>
        /\ referenced_funcs = <<>>
        /\ NumEvents(trace, "get_function") = 0
        /\ NumEvents(trace, "xrefs_to") = 0
        /\ NumEvents(trace, "decompile") = 0
        /\ NumEvents(trace, "matches") = 0
        /\ NumEvents(trace, "log_info") = 0
        /\ NumEvents(trace, "show_html_report") = 0
        /\ report = <<>>
        /\ shown = <<>>

C8_Witness ==
    /\ raised
    /\ pc = "raised"
    /\ output_format = "Report Tab"
    /\ trace[Len(trace)] = Event("parse_query", "ParseError", 0, 0)

(* ------------------------------------------------------------------------- *)
(* C9 as claimed: once the working set is empty no further caller set is      *)
(* computed and nothing is rendered or matched.                               *)
(* ------------------------------------------------------------------------- *)
C9_EmptySetStopsReduction ==
    [][ (pc = "intersect" /\ work = {}) =>
            /\ NumEvents(trace', "xrefs_to") = NumEvents(trace, "xrefs_to")
            /\ NumEvents(trace', "decompile") = 0
            /\ NumEvents(trace', "matches") = 0 ]_vars

(* C9 as amended: once the working set is empty it stays empty and nothing is *)
(* rendered or matched, but the reduction loop still computes the caller set  *)
(* of every anchor, one xrefs_to per anchor.                                  *)
C9_EmptySetStaysEmpty ==
    [][ /\ (pc \in {"intersect", "search", "display", "done"} /\ work = {}) =>
              /\ work' = {}
              /\ NumEvents(trace', "decompile") = 0
              /\ NumEvents(trace', "matches") = 0
        /\ pc' = "search" =>
              NumEvents(trace', "xrefs_to") = Len(referenced_funcs') ]_vars

C9_Witness ==
    /\ pc = "done"
    /\ Len(referenced_funcs) = 2
    /\ CallersOf(referenced_funcs[1].start) = {}
    /\ CallersOf(referenced_funcs[2].start) # {}
    /\ NumEvents(trace, "xrefs_to") = 2
    /\ work = {}

(* ------------------------------------------------------------------------- *)
(* C10 as claimed: a run only reads the state it shares with other runs: the  *)
(* host settings, the persisted query text, the function table and the        *)
(* call-site index are the same after every step.                             *)
(* ------------------------------------------------------------------------- *)
C10_SharedStateUntouched ==
    [][ /\ settings' = settings
        /\ qsettings' = qsettings
        /\ functions' = functions
        /\ callSites' = callSites ]_vars

(* C10 as amended: the function table, the call-site index and the weggli     *)
(* settings are never written; the only writes to shared state are the        *)
(* last-used query text, stored when the form is confirmed, and the host      *)
(* setting rendering.hlil.scopingStyle, set each time a candidate is rendered.*)
C10_SharedWritesAreTwo ==
    [][ /\ functions' = functions
        /\ callSites' = callSites
        /\ settings'.weggli_show_code = settings.weggli_show_code
        /\ settings'.weggli_default_output = settings.weggli_default_output
        /\ settings' # settings =>
              /\ pc = "search"
              /\ settings'.rendering_hlil_scopingStyle = "bracesNewLine"
        /\ pc = "search" /\ pc' = "search" =>
              settings'.rendering_hlil_scopingStyle = "bracesNewLine"
        /\ qsettings' # qsettings =>
              /\ pc = "idle"
              /\ qsettings' = Str(raw') ]_vars

C10_Witness ==
    /\ pc = "done"
    /\ settings.rendering_hlil_scopingStyle = "bracesNewLine"
    /\ qsettings = Str(ExampleQuery)

====
